---- MODULE Spec2Model ----
(***************************************************************************)
(* Model of the two standalone scripts of the repository:                  *)
(*   tools/parse_onnx.py            the graph-node dump utility (main)     *)
(*   tools/create_and_save_model.py the build-train-save-load demo         *)
(* Each script is one operating-system process.  The external libraries    *)
(* (onnx, json, tensorflow, numpy) are modelled by what the scripts        *)
(* observe of them: a call returns a value or raises.                      *)
(***************************************************************************)
EXTENDS Integers, Sequences, FiniteSets, TLC

\* ------------------------------------------------------------------ bounds
MaxNodes == 2      \* longest computation graph of a model file
MaxArgs == 2       \* most command-line arguments after the program name

\* --------------------------------------------------------- input universes
Paths == {"a.onnx", "b.onnx"}
GraphNames == {"g1", "g2"}
Domains == {"", "ai.onnx"}

RECURSIVE SeqsUpTo(_, _)
SeqsUpTo(S, n) ==
    IF n = 0 THEN {<<>>}
    ELSE LET shorter == SeqsUpTo(S, n - 1)
         IN  shorter \cup {Append(s, x) : s \in {t \in shorter : Len(t) = n - 1}, x \in S}

\* A node of a computation graph, as the dump utility reads it (name, op_type).
NodeProtos ==
    {[name |-> "dense", op_type |-> "MatMul"],
     [name |-> "", op_type |-> "Relu"]}

\* What a path of the file system holds: nothing, bytes that are no model, or a
\* serialized ModelProto (graph.name, graph.node, domain).
MissingFile == [kind |-> "missing"]
InvalidFile == [kind |-> "invalid"]
ModelFiles ==
    {[kind |-> "model", domain |-> d, graph |-> [name |-> g, node |-> ns]] :
        d \in Domains, g \in GraphNames, ns \in SeqsUpTo(NodeProtos, MaxNodes)}
Files == {MissingFile, InvalidFile} \cup ModelFiles

ProgName == "parse_onnx.py"
ArgVectors == {<<ProgName>> \o args : args \in SeqsUpTo(Paths, MaxArgs)}

\* ------------------------------------------------------------ Python values
PyNone == [py |-> "None"]
PyStr(s) == [py |-> "str", s |-> s]
PyDict(items) == [py |-> "dict", items |-> items]     \* <<key, value>> pairs, insertion order
PyList(elems) == [py |-> "list", elems |-> elems]

\* d[k] of a dict
DictGet(d, k) ==
    LET i == CHOOSE j \in 1..Len(d.items) : d.items[j][1] = k
    IN  d.items[i][2]

\* d[k] = v for a key the dict already has (the position of the key is kept)
DictSet(d, k, v) ==
    PyDict([j \in 1..Len(d.items) |->
                IF d.items[j][1] = k THEN <<k, v>> ELSE d.items[j]])

\* -------------------------------------------------------------- JSON values
JNull == [j |-> "null"]
JStr(s) == [j |-> "string", s |-> s]
JObj(members) == [j |-> "object", members |-> members]
JArr(elems) == [j |-> "array", elems |-> elems]

\* json.dumps(obj, indent=4): the document written for a Python value.  The
\* indentation only lays the text out; the document is modelled by its structure.
RECURSIVE JsonDumps(_)
JsonDumps(v) ==
    CASE v.py = "None" -> JNull
      [] v.py = "str"  -> JStr(v.s)
      [] v.py = "dict" -> JObj([i \in 1..Len(v.items) |->
                                   <<v.items[i][1], JsonDumps(v.items[i][2])>>])
      [] v.py = "list" -> JArr([i \in 1..Len(v.elems) |-> JsonDumps(v.elems[i])])

UsageLine == [out |-> "text", text |-> "Usage: python parse_onnx.py <model_path>"]
JsonLine(doc) == [out |-> "json", doc |-> doc]

\* Variant of OutputDict: graph name and domain exchanged.
OutputDict_Swapped(m) ==
    PyDict(<< <<"name", PyStr(m.domain)>>,
              <<"type", PyStr("ONNX")>>,
              <<"architecture", PyStr(m.graph.name)>>,
              <<"layers", PyList(<<>>)>> >>)

\* The initial value of output (parse_onnx.py lines 13-18)
OutputDict(m) ==
    PyDict(<< <<"name", PyStr(m.graph.name)>>,
              <<"type", PyStr("ONNX")>>,
              <<"architecture", PyStr(m.domain)>>,
              <<"layers", PyList(<<>>)>> >>)

\* Variant of Layer: weights is an empty list instead of None.
Layer_WithWeights(node) ==
    PyDict(<< <<"name", PyStr(node.name)>>,
              <<"type", PyStr(node.op_type)>>,
              <<"parameters", PyDict(<<>>)>>,
              <<"weights", PyList(<<>>)>> >>)

\* The record built for one node (parse_onnx.py lines 21-26)
Layer(node) ==
    PyDict(<< <<"name", PyStr(node.name)>>,
              <<"type", PyStr(node.op_type)>>,
              <<"parameters", PyDict(<<>>)>>,
              <<"weights", PyNone>> >>)

\* onnx.load(path) succeeds exactly on a path that holds a serialized model.
LoadOk(f) == f.kind = "model"
LoadError(f) == IF f.kind = "missing" THEN "FileNotFoundError" ELSE "DecodeError"

\* --------------------------------------- create_and_save_model.py, the text
\* The logical lines of the script (comments and blank lines are no logical
\* line; a bracketed expression over several physical lines is one): the
\* physical line it starts on, the column its first token starts in, whether it
\* ends in a colon and so opens a block, and what it does when executed.
Stmt(l, c, o, what) == [line |-> l, indent |-> c, opens |-> o, op |-> what]
DemoSource ==
    << Stmt(1, 0, FALSE, "import"),       \* import tensorflow as tf
       Stmt(2, 0, FALSE, "import"),       \* import os
       Stmt(5, 0, TRUE, "def"),           \* def create_simple_model():
       Stmt(6, 4, FALSE, "body"),         \*     model = tf.keras.Sequential([...])
       Stmt(10, 4, FALSE, "body"),        \*     return model
       Stmt(13, 0, FALSE, "create"),      \* model = create_simple_model()
       Stmt(16, 0, FALSE, "compile"),     \* model.compile(...)
       Stmt(19, 0, FALSE, "import"),      \* import numpy as np
       Stmt(20, 0, FALSE, "data"),        \* x_train = ...
       Stmt(21, 0, FALSE, "data"),        \* y_train = ...
       Stmt(24, 0, FALSE, "print"),
       Stmt(25, 0, FALSE, "fit"),         \* model.fit(x_train, y_train, epochs=5, verbose=0)
       Stmt(26, 0, FALSE, "print"),
       Stmt(29, 0, FALSE, "setpath"),     \* model_save_path = "./simple_tf_model"
       Stmt(33, 0, FALSE, "print"),
       Stmt(34, 0, FALSE, "save"),        \* tf.saved_model.save(model, model_save_path)
       Stmt(35, 0, FALSE, "print"),
       Stmt(38, 0, FALSE, "print"),
       Stmt(39, 0, TRUE, "walk"),         \* for root, dirs, files in os.walk(model_save_path):
       Stmt(40, 4, FALSE, "body"),
       Stmt(41, 4, FALSE, "body"),
       Stmt(42, 4, FALSE, "body"),
       Stmt(43, 4, FALSE, "body"),
       Stmt(44, 4, TRUE, "body"),         \*     for f in files:
       Stmt(45, 8, FALSE, "body"),
       Stmt(48, 0, FALSE, "print"),
       Stmt(49, 0, FALSE, "load"),        \* loaded_model = tf.saved_model.load(model_save_path)
       Stmt(50, 0, FALSE, "print"),
       Stmt(54, 1, FALSE, "input"),       \*  dummy_input = np.random.rand(1, 5)...
       Stmt(55, 0, FALSE, "print"),
       Stmt(58, 0, FALSE, "infer"),       \* predictions = loaded_model(dummy_input)
       Stmt(59, 0, FALSE, "printpred") >> \* print(f"... {predictions.numpy()}")

\* Python compiles the whole file before it executes any statement.  The
\* tokenizer keeps a stack of indentation columns: a deeper line is legal only
\* right after a line that opens a block, a line that opens a block must be
\* followed by a deeper one, and a shallower line must return to a column on
\* the stack.  The result is the physical line of the first IndentationError,
\* or 0 when the file compiles.
RECURSIVE IndentError(_, _, _, _)
IndentError(src, i, stack, opened) ==
    IF i > Len(src) THEN 0
    ELSE LET col == src[i].indent
             top == stack[Len(stack)]
         IN  IF opened
             THEN IF col > top
                  THEN IndentError(src, i + 1, Append(stack, col), src[i].opens)
                  ELSE src[i].line                      \* expected an indented block
             ELSE IF col > top
                  THEN src[i].line                      \* unexpected indent
                  ELSE IF \E k \in 1..Len(stack) : stack[k] = col
                       THEN LET d == CHOOSE k \in 1..Len(stack) : stack[k] = col
                            IN  IndentError(src, i + 1, SubSeq(stack, 1, d), src[i].opens)
                       ELSE src[i].line                 \* unindent matches no outer level

CompileError(src) == IndentError(src, 1, <<0>>, FALSE)
DemoCompileError == CompileError(DemoSource)

\* The statements of the module body, in execution order: the logical lines at
\* column 0 (the lines of a def or for block run inside their statement).
RECURSIVE TopLevel(_, _)
TopLevel(src, i) ==
    IF i > Len(src) THEN <<>>
    ELSE IF src[i].indent = 0
         THEN <<src[i]>> \o TopLevel(src, i + 1)
         ELSE TopLevel(src, i + 1)
DemoBody == TopLevel(DemoSource, 1)

\* ------------------------------------ create_and_save_model.py, the execution
ModelSavePath == "./simple_tf_model"
SavedModelPb == "saved_model.pb"
NoPred == [given |-> FALSE, value |-> 0]
\* The output of the final sigmoid unit, in thousandths.
SigmoidOutputs == {0, 500, 1000}

DemoStart ==
    [steps |-> <<>>, path |-> "unset", disk |-> {}, loaded |-> "none",
     pred |-> NoPred, err |-> "none", errLine |-> 0]

\* One statement of the module body, executed in state st.
ExecStmt(st, stmt, sigmoid) ==
    LET done == [st EXCEPT !.steps = Append(@, stmt)]
    IN  CASE stmt.op = "setpath" -> [done EXCEPT !.path = ModelSavePath]
          [] stmt.op = "save" -> [done EXCEPT !.disk = @ \cup {<<st.path, SavedModelPb>>}]
          [] stmt.op = "load" ->
                IF <<st.path, SavedModelPb>> \in st.disk
                THEN [done EXCEPT !.loaded = st.path]
                ELSE [st EXCEPT !.err = "OSError", !.errLine = stmt.line]
          [] stmt.op = "printpred" ->
                [done EXCEPT !.pred = [given |-> TRUE, value |-> sigmoid]]
          [] OTHER -> done

\* The module body from statement i on; statement failAt (0: none) raises inside
\* the library it calls, and nothing catches it.
RECURSIVE RunBody(_, _, _, _, _)
RunBody(st, body, i, failAt, sigmoid) ==
    IF i > Len(body) \/ st.err # "none" THEN st
    ELSE IF i = failAt
         THEN [st EXCEPT !.err = "LibraryError", !.errLine = body[i].line]
         ELSE RunBody(ExecStmt(st, body[i], sigmoid), body, i + 1, failAt, sigmoid)

\* ------------------------------------------------------------------- state
VARIABLES
    argv,        \* sys.argv of the dump utility
    fs,          \* the file system: path -> what it holds
    pc,          \* position of the dump utility in main
    model_path,  \* local of main
    model,       \* local of main: the loaded ModelProto
    output,      \* local of main: the dict being built
    idx,         \* nodes of model.graph.node the for loop has consumed
    stdout,      \* what the dump utility has written to standard output
    loads,       \* paths onnx.load was called with, in call order
    exc,         \* the exception that left main uncaught, or "none"
    demoPc,      \* the demo process: "start", "done" or "crashed"
    demoErr,     \* the exception that ended the demo, or "none"
    demoErrLine, \* the line of the script that exception was raised for, or 0
    demoSteps,   \* the module-body statements the demo has completed, in order
    demoDisk,    \* <<directory, file>> pairs the demo has written
    demoLoaded,  \* the directory tf.saved_model.load read, or "none"
    demoPred     \* the prediction the demo printed, or NoPred

dumpVars == <<argv, fs, pc, model_path, model, output, idx, stdout, loads, exc>>
demoVars == <<demoPc, demoErr, demoErrLine, demoSteps, demoDisk, demoLoaded, demoPred>>
vars == <<argv, fs, pc, model_path, model, output, idx, stdout, loads, exc,
          demoPc, demoErr, demoErrLine, demoSteps, demoDisk, demoLoaded, demoPred>>

Unset == [py |-> "unset"]

Init ==
    /\ argv \in ArgVectors
    /\ fs \in [Paths -> Files]
    /\ pc = "main"
    /\ model_path = ""
    /\ model = Unset
    /\ output = Unset
    /\ idx = 0
    /\ stdout = <<>>
    /\ loads = <<>>
    /\ exc = "none"
    /\ demoPc = "start"
    /\ demoErr = "none"
    /\ demoErrLine = 0
    /\ demoSteps = <<>>
    /\ demoDisk = {}
    /\ demoLoaded = "none"
    /\ demoPred = NoPred

\* ------------------------------------------------------- parse_onnx.py main
\* Variant of MainUsage: the return is missing, so sys.argv[1] raises.
MainUsage_NoReturn ==
    /\ pc = "main"
    /\ Len(argv) < 2
    /\ stdout' = Append(stdout, UsageLine)
    /\ pc' = "crashed"
    /\ exc' = "IndexError"
    /\ UNCHANGED <<argv, fs, model_path, model, output, idx, loads>>
    /\ UNCHANGED demoVars

\* lines 6-8: the argument is missing: usage line, return
MainUsage ==
    /\ pc = "main"
    /\ Len(argv) < 2
    /\ stdout' = Append(stdout, UsageLine)
    /\ pc' = "done"
    /\ UNCHANGED <<argv, fs, model_path, model, output, idx, loads, exc>>
    /\ UNCHANGED demoVars

\* Variant of MainReadArg: the last argument is taken (sys.argv[-1]).
MainReadArg_Last ==
    /\ pc = "main"
    /\ ~(Len(argv) < 2)
    /\ model_path' = argv[Len(argv)]
    /\ pc' = "load"
    /\ UNCHANGED <<argv, fs, model, output, idx, stdout, loads, exc>>
    /\ UNCHANGED demoVars

\* line 10: model_path = sys.argv[1]
MainReadArg ==
    /\ pc = "main"
    /\ ~(Len(argv) < 2)
    /\ model_path' = argv[2]
    /\ pc' = "load"
    /\ UNCHANGED <<argv, fs, model, output, idx, stdout, loads, exc>>
    /\ UNCHANGED demoVars

\* Variant of MainLoad: the failure is caught and an empty document printed.
MainLoad_Caught ==
    /\ pc = "load"
    /\ loads' = Append(loads, model_path)
    /\ IF LoadOk(fs[model_path])
       THEN /\ model' = fs[model_path]
            /\ pc' = "build"
            /\ stdout' = stdout
       ELSE /\ model' = model
            /\ pc' = "done"
            /\ stdout' = Append(stdout, JsonLine(JsonDumps(PyDict(<<>>))))
    /\ UNCHANGED <<argv, fs, model_path, output, idx, exc>>
    /\ UNCHANGED demoVars

\* Variant of MainLoad: a failed load is tried once more before giving up.
MainLoad_Retry ==
    /\ pc = "load"
    /\ loads' = Append(loads, model_path)
    /\ IF LoadOk(fs[model_path])
       THEN /\ model' = fs[model_path]
            /\ pc' = "build"
            /\ exc' = exc
       ELSE /\ model' = model
            /\ pc' = IF Len(loads) >= 1 THEN "crashed" ELSE "load"
            /\ exc' = IF Len(loads) >= 1 THEN LoadError(fs[model_path]) ELSE exc
    /\ UNCHANGED <<argv, fs, model_path, output, idx, stdout>>
    /\ UNCHANGED demoVars

\* line 11: model = onnx.load(model_path); a failure leaves main uncaught
MainLoad ==
    /\ pc = "load"
    /\ loads' = Append(loads, model_path)
    /\ IF LoadOk(fs[model_path])
       THEN /\ model' = fs[model_path]
            /\ pc' = "build"
            /\ exc' = exc
       ELSE /\ model' = model
            /\ pc' = "crashed"
            /\ exc' = LoadError(fs[model_path])
    /\ UNCHANGED <<argv, fs, model_path, output, idx, stdout>>
    /\ UNCHANGED demoVars

\* lines 13-18: output = {...}
MainBuildOutput ==
    /\ pc = "build"
    /\ output' = OutputDict(model)
    /\ idx' = 0
    /\ pc' = "loop"
    /\ UNCHANGED <<argv, fs, model_path, model, stdout, loads, exc>>
    /\ UNCHANGED demoVars

\* Variant of MainLoopBody: the record is inserted at the front of the list.
MainLoopBody_Prepend ==
    /\ pc = "loop"
    /\ idx < Len(model.graph.node)
    /\ LET node == model.graph.node[idx + 1]
           layers == DictGet(output, "layers")
       IN  output' = DictSet(output, "layers", PyList(<<Layer(node)>> \o layers.elems))
    /\ idx' = idx + 1
    /\ UNCHANGED <<argv, fs, pc, model_path, model, stdout, loads, exc>>
    /\ UNCHANGED demoVars

\* Variant of MainLoopBody: each record is printed as soon as it is built.
MainLoopBody_PrintEach ==
    /\ pc = "loop"
    /\ idx < Len(model.graph.node)
    /\ LET node == model.graph.node[idx + 1]
           layers == DictGet(output, "layers")
       IN  /\ output' = DictSet(output, "layers", PyList(Append(layers.elems, Layer(node))))
           /\ stdout' = Append(stdout, JsonLine(JsonDumps(Layer(node))))
    /\ idx' = idx + 1
    /\ UNCHANGED <<argv, fs, pc, model_path, model, loads, exc>>
    /\ UNCHANGED demoVars

\* lines 20-27: one iteration of the for loop
MainLoopBody ==
    /\ pc = "loop"
    /\ idx < Len(model.graph.node)
    /\ LET node == model.graph.node[idx + 1]
           layers == DictGet(output, "layers")
       IN  output' = DictSet(output, "layers", PyList(Append(layers.elems, Layer(node))))
    /\ idx' = idx + 1
    /\ UNCHANGED <<argv, fs, pc, model_path, model, stdout, loads, exc>>
    /\ UNCHANGED demoVars

\* line 29: the loop is exhausted: print(json.dumps(output, indent=4)), return
MainDump ==
    /\ pc = "loop"
    /\ idx = Len(model.graph.node)
    /\ stdout' = Append(stdout, JsonLine(JsonDumps(output)))
    /\ pc' = "done"
    /\ UNCHANGED <<argv, fs, model_path, model, output, idx, loads, exc>>
    /\ UNCHANGED demoVars

\* ---------------------------------------- python create_and_save_model.py
\* One run of the demo: compile the file, then execute the module body.
DemoFinish(st) ==
    /\ demoPc' = IF st.err = "none" THEN "done" ELSE "crashed"
    /\ demoErr' = st.err
    /\ demoErrLine' = st.errLine
    /\ demoSteps' = st.steps
    /\ demoDisk' = st.disk
    /\ demoLoaded' = st.loaded
    /\ demoPred' = st.pred

DemoRun ==
    /\ demoPc = "start"
    /\ IF DemoCompileError # 0
       THEN DemoFinish([DemoStart EXCEPT !.err = "IndentationError",
                                         !.errLine = DemoCompileError])
       ELSE \E failAt \in 0..Len(DemoBody), sigmoid \in SigmoidOutputs :
                DemoFinish(RunBody(DemoStart, DemoBody, 1, failAt, sigmoid))
    /\ UNCHANGED dumpVars

Next ==
    \/ MainUsage
    \/ MainReadArg
    \/ MainLoad
    \/ MainBuildOutput
    \/ MainLoopBody
    \/ MainDump
    \/ DemoRun

Spec == Init /\ [][Next]_vars

\* ================================================================= properties
\* Member key of a JSON object.
JGet(obj, key) ==
    LET i == CHOOSE k \in 1..Len(obj.members) : obj.members[k][1] = key
    IN  obj.members[i][2]

HasArg == Len(argv) >= 2
\* The file the first argument names, and the document on standard output.
ArgFile == fs[argv[2]]
Doc == stdout[Len(stdout)].doc
DumpDone == pc = "done" /\ HasArg
DemoEnded == demoPc # "start"
\* The library calls of the demo among the statements it completed.
LibraryOps == {"create", "compile", "fit", "save", "load", "infer"}
RECURSIVE OpsOf(_)
OpsOf(steps) ==
    IF steps = <<>> THEN <<>>
    ELSE (IF steps[1].op \in LibraryOps THEN <<steps[1].op>> ELSE <<>>) \o OpsOf(Tail(steps))

\* C1: every run of the demo ends normally with the serialized-model artifact in
\* the output directory, the model reloaded from that directory, and a printed
\* prediction between 0 and 1 (0..1000 thousandths).
C1_DemoEndToEnd ==
    DemoEnded =>
        /\ demoPc = "done"
        /\ <<ModelSavePath, SavedModelPb>> \in demoDisk
        /\ demoLoaded = ModelSavePath
        /\ demoPred.given
        /\ demoPred.value \in 0..1000

\* C2: with no command-line argument the dump utility prints the usage line
\* and nothing else, and never calls onnx.load.
C2_UsageNoFileAccess ==
    ~HasArg =>
        /\ loads = <<>>
        /\ \A i \in 1..Len(stdout) : stdout[i].out # "json"
        /\ pc \in {"main", "done"}
        /\ pc = "done" => stdout = <<UsageLine>>
C2_Witness == ~HasArg /\ pc = "done" /\ stdout = <<UsageLine>>

\* C3: on a valid model file the document's layers array is as long as the
\* graph's node list, and name / architecture are the file's graph name / domain.
C3_CountNameDomain ==
    DumpDone =>
        /\ Len(JGet(Doc, "layers").elems) = Len(ArgFile.graph.node)
        /\ JGet(Doc, "name") = JStr(ArgFile.graph.name)
        /\ JGet(Doc, "architecture") = JStr(ArgFile.domain)
C3_Witness ==
    /\ DumpDone
    /\ Len(ArgFile.graph.node) >= 2
    /\ ArgFile.graph.name # ArgFile.domain
C3_WitnessEmpty == DumpDone /\ ArgFile.graph.node = <<>>

\* C4: the i-th layer record carries the name and operator type of the i-th
\* node of the graph, during the loop and in the printed document.
C4_LayersFollowGraph ==
    /\ pc = "loop" =>
          /\ Len(DictGet(output, "layers").elems) = idx
          /\ \A i \in 1..idx :
                LET l == DictGet(output, "layers").elems[i]
                IN  /\ DictGet(l, "name") = PyStr(model.graph.node[i].name)
                    /\ DictGet(l, "type") = PyStr(model.graph.node[i].op_type)
    /\ DumpDone =>
          /\ DOMAIN JGet(Doc, "layers").elems = DOMAIN ArgFile.graph.node
          /\ \A i \in DOMAIN ArgFile.graph.node :
                LET l == JGet(Doc, "layers").elems[i]
                IN  /\ JGet(l, "name") = JStr(ArgFile.graph.node[i].name)
                    /\ JGet(l, "type") = JStr(ArgFile.graph.node[i].op_type)
C4_Witness ==
    /\ DumpDone
    /\ Len(ArgFile.graph.node) >= 2
    /\ ArgFile.graph.node[1] # ArgFile.graph.node[2]

\* C5: the document's type is the literal "ONNX" and every layer record has an
\* empty parameters object and a null weights member.
C5_ConstantTypeNoWeights ==
    DumpDone =>
        /\ JGet(Doc, "type") = JStr("ONNX")
        /\ \A i \in 1..Len(JGet(Doc, "layers").elems) :
              LET l == JGet(Doc, "layers").elems[i]
              IN  /\ JGet(l, "parameters") = JObj(<<>>)
                  /\ JGet(l, "weights") = JNull
C5_Witness == DumpDone /\ Len(JGet(Doc, "layers").elems) >= 1

\* C6: when onnx.load fails the exception leaves main uncaught and standard
\* output is empty; a path that does not exist fails with the file-access error.
C6_LoadFailurePropagates ==
    /\ exc # "none" => pc = "crashed" /\ stdout = <<>>
    /\ (HasArg /\ ~LoadOk(ArgFile)) =>
          /\ pc \in {"main", "load", "crashed"}
          /\ stdout = <<>>
          /\ pc = "crashed" =>
                exc = IF ArgFile = MissingFile THEN "FileNotFoundError" ELSE "DecodeError"
C6_Witness ==
    HasArg /\ ArgFile = MissingFile /\ pc = "crashed" /\ exc = "FileNotFoundError"

\* C7: every run of the demo performs construct, compile, train, save, reload
\* and inference exactly once each in that order, the reload reading the
\* directory the save wrote.
C7_StepsOnceInOrder ==
    DemoEnded =>
        /\ OpsOf(demoSteps) = <<"create", "compile", "fit", "save", "load", "infer">>
        /\ demoLoaded = ModelSavePath
        /\ <<demoLoaded, SavedModelPb>> \in demoDisk

\* C8: standard output holds at most one item: the usage line only when no
\* argument was given, a JSON document only once every node has been visited
\* and main has returned; nothing is written while the loop runs.
C8_AtMostOneOutput ==
    /\ Len(stdout) <= 1
    /\ \A i \in 1..Len(stdout) :
          /\ stdout[i] = UsageLine => ~HasArg
          /\ stdout[i].out = "json" =>
                /\ HasArg
                /\ pc = "done"
                /\ idx = Len(model.graph.node)
                /\ Len(JGet(stdout[i].doc, "layers").elems) = Len(model.graph.node)
    /\ pc \in {"main", "load", "build", "loop", "crashed"} => stdout = <<>>
C8_Witness ==
    /\ pc = "done"
    /\ Len(stdout) = 1
    /\ stdout[1].out = "json"
    /\ idx >= 2

\* C9: no retries and no recovery: the dump utility calls onnx.load at most
\* once, a failed load ends it; a failure of the demo ends the demo, and no
\* statement at or after the failing line has run.
C9_NoRetryNoRecovery ==
    /\ Len(loads) <= 1
    /\ pc = "crashed" => Len(loads) = 1 /\ exc # "none"
    /\ demoErr # "none" =>
          /\ demoPc = "crashed"
          /\ demoPred = NoPred
          /\ \A i \in 1..Len(demoSteps) : demoSteps[i].line < demoErrLine
C9_Witness ==
    /\ pc = "crashed"
    /\ Len(loads) = 1
    /\ demoPc = "crashed"
    /\ demoErr # "none"

\* C10: with at least one argument the run is never rejected, the file loaded
\* is the first argument whatever follows it, and what is printed is a function
\* of that file alone.
DocOf(f) ==
    JObj(<< <<"name", JStr(f.graph.name)>>,
            <<"type", JStr("ONNX")>>,
            <<"architecture", JStr(f.domain)>>,
            <<"layers",
              JArr([i \in 1..Len(f.graph.node) |->
                      JObj(<< <<"name", JStr(f.graph.node[i].name)>>,
                              <<"type", JStr(f.graph.node[i].op_type)>>,
                              <<"parameters", JObj(<<>>)>>,
                              <<"weights", JNull>> >>)])>> >>)
C10_FirstArgumentOnly ==
    (HasArg /\ pc # "main") =>
        /\ model_path = argv[2]
        /\ loads \in {<<>>, <<argv[2]>>}
        /\ pc \in {"build", "loop", "done"} => model = ArgFile
        /\ pc = "done" => stdout = <<JsonLine(DocOf(ArgFile))>>
C10_Witness ==
    /\ Len(argv) >= 3
    /\ argv[3] # argv[2]
    /\ LoadOk(ArgFile)
    /\ fs[argv[3]] # ArgFile
    /\ pc = "done"
====
